---- MODULE Spec2Model ----
(***************************************************************************)
(* Incremental k-matroid-intersection engine: matroid oracles, the problem *)
(* aggregator (MatroidProblem), the baseline greedy, Kuhn's bipartite      *)
(* matching and the (t,t+1)-exchange local search, together with the       *)
(* harness of main.cpp that runs them in sequence and validates the        *)
(* emitted selections.                                                     *)
(*                                                                         *)
(* Elements of the ground set are 0..N-1 and vertices 0..n-1, as in the    *)
(* source; vectors are functions over these ranges.  An instance's edge    *)
(* list is a sequence, so element e is edges[e+1] and its coordinate c is  *)
(* edges[e+1][c+1].                                                        *)
(***************************************************************************)
EXTENDS Integers, Sequences, FiniteSets, TLC

VARIABLES
  inst,        \* the problem instance: [kind, k, n, edges, timeLimit]
  member,      \* MatroidProblem::setMembership_
  orc,         \* MatroidProblem::matroids_ : oracle index -> oracle state
  last,        \* the last public aggregator call and its outcome
  pc,          \* position of the harness / of LocalSearchAlgorithm::run
  baseline,    \* the record BaselineAlgorithm::run returned (or NoRecord)
  kuhn,        \* the record Kuhn2dMatchingAlgorithm::run returned (or NoRecord)
  solutions,   \* LocalSearchAlgorithm::run : solutions
  emitted,     \* per record of solutions: [member at emission, depth s, deadline]
  solutionMask,
  justRemoved,
  elapsedSeconds,     \* steady_clock::now() - startTime, in whole seconds
  timeLimitExceeded,
  s,           \* the depth of the top-level loop
  i,           \* the exchange size tried in the current pass
  success,
  solutionSize,
  cur,         \* the recursive call being entered, or the value being returned
  stack,       \* frames suspended in a recursive call, innermost last
  attempt,     \* state at the start of the running exchange attempt
  fired,       \* where checkTimeLimit first returned true: "none", "step" (before a
               \* depth), "entry" (first frame of an attempt), "nested" (a deeper frame)
  error,       \* the exception that ended the run, or "none"
  previous     \* what an earlier sequence of runs on this instance emitted

vars == <<inst, member, orc, last, pc, baseline, kuhn, solutions, emitted,
          solutionMask, justRemoved, elapsedSeconds, timeLimitExceeded, s, i,
          success, solutionSize, cur, stack, attempt, fired, error,
          previous>>

(***************************************************************************)
(* Bounds of the model.                                                    *)
(***************************************************************************)
MaxN == 3      \* largest ground set (number of edges of an instance)

\* <<arity k, vertices per partition n>> of the matching instances drawn
MatchingShapes == {<<1, 2>>, <<2, 2>>, <<3, 2>>, <<4, 1>>}
\* vertex counts of the Hamiltonian instances drawn
HamiltonianVertexCounts == {3}
\* time limits (seconds) passed to LocalSearchAlgorithm
TimeLimits == {0, 1}

Range(m) == 0 .. (m - 1)

SeqsUpTo(S, m) == UNION {[1 .. l -> S] : l \in 0 .. m}

MatchingInstances ==
  UNION {{[kind |-> "matching", k |-> sh[1], n |-> sh[2], edges |-> es,
           timeLimit |-> tl] :
            es \in SeqsUpTo([1 .. sh[1] -> Range(sh[2])], MaxN),
            tl \in TimeLimits} : sh \in MatchingShapes}

HamiltonianInstances ==
  UNION {{[kind |-> "hamiltonian", k |-> 3, n |-> nv, edges |-> es,
           timeLimit |-> tl] :
            es \in SeqsUpTo([1 .. 2 -> Range(nv)], MaxN),
            tl \in TimeLimits} : nv \in HamiltonianVertexCounts}

Instances == MatchingInstances \cup HamiltonianInstances

N == Len(inst.edges)
K == inst.k
Elements == Range(N)
Vertices == Range(inst.n)
Coord(e, c) == inst.edges[e + 1][c + 1]

(***************************************************************************)
(* Matroid oracles (MatroidSet).  An oracle is a record                    *)
(*   kind  : "partition" | "degree" | "acyclic"                            *)
(*   key   : the coordinate of an element that names its vertex            *)
(*   vused : is_vertex_used_   (partition, degree)                         *)
(*   eused : is_edge_used_     (partition)                                 *)
(*   next  : next_             (acyclic)                                   *)
(*   sel   : the subset S the oracle has accepted and not yet removed      *)
(* Fields a kind does not have are the empty function << >>.  sel is the   *)
(* selected subset the oracle stands for; no operation reads it.           *)
(***************************************************************************)
PartitionMatroidSet(c) ==
  [kind |-> "partition", key |-> c,
   vused |-> [v \in Vertices |-> FALSE],
   eused |-> [e \in Elements |-> FALSE],
   next |-> << >>, sel |-> {}]

SingleIncomingEdgeMatroidSet(c) ==
  [kind |-> "degree", key |-> c,
   vused |-> [v \in Vertices |-> FALSE],
   eused |-> << >>, next |-> << >>, sel |-> {}]

GraphicMatroidSet ==
  [kind |-> "acyclic", key |-> 0,
   vused |-> << >>, eused |-> << >>,
   next |-> [v \in Vertices |-> -1], sel |-> {}]

\* MatchingProblem: one partition oracle per coordinate.
\* HamiltonianPathProblem: out-degree (tail), in-degree (head), acyclicity.
BuildOracles ==
  IF inst.kind = "matching"
    THEN [j \in Range(K) |-> PartitionMatroidSet(j)]
    ELSE [j \in Range(3) |->
            CASE j = 0 -> SingleIncomingEdgeMatroidSet(0)
              [] j = 1 -> SingleIncomingEdgeMatroidSet(1)
              [] OTHER -> GraphicMatroidSet]

Accept(o) == [res |-> "true", o |-> o]
Reject(o) == [res |-> "false", o |-> o]
Throw(o) == [res |-> "throw", o |-> o]

PartitionTryAdd(o, e) ==
  LET v == Coord(e, o.key) IN
    IF o.eused[e] THEN Throw(o)
    ELSE IF o.vused[v] THEN Reject(o)
    ELSE Accept([o EXCEPT !.vused[v] = TRUE, !.eused[e] = TRUE,
                          !.sel = @ \cup {e}])

PartitionRemove(o, e) ==
  LET v == Coord(e, o.key) IN
    IF ~o.eused[e] THEN Throw(o)
    ELSE Accept([o EXCEPT !.vused[v] = FALSE, !.eused[e] = FALSE,
                          !.sel = @ \ {e}])

DegreeTryAdd(o, e) ==
  LET v == Coord(e, o.key) IN
    IF o.vused[v] THEN Reject(o)
    ELSE Accept([o EXCEPT !.vused[v] = TRUE, !.sel = @ \cup {e}])

DegreeRemove(o, e) ==
  LET v == Coord(e, o.key) IN
    IF ~o.vused[v] THEN Throw(o)
    ELSE Accept([o EXCEPT !.vused[v] = FALSE, !.sel = @ \ {e}])

\* cur <- b; while next[cur] # -1: cur <- next[cur], at most vertex-count
\* steps; -2 stands for the step counter running out.
RECURSIVE Walk(_, _, _)
Walk(nxt, c, steps) ==
  IF nxt[c] = -1 THEN c
  ELSE IF steps >= inst.n THEN -2
  ELSE Walk(nxt, nxt[c], steps + 1)

\* AcyclicTryAdd that accepts without walking from b.
AcyclicTryAddNoWalk(o, e) ==
  Accept([o EXCEPT !.next[Coord(e, 0)] = Coord(e, 1), !.sel = @ \cup {e}])

AcyclicTryAdd(o, e) ==
  LET a == Coord(e, 0)
      b == Coord(e, 1)
      end == Walk(o.next, b, 0)
  IN  IF end = -2 THEN Throw(o)
      ELSE IF end = a THEN Reject(o)
      ELSE Accept([o EXCEPT !.next[a] = b, !.sel = @ \cup {e}])

AcyclicRemove(o, e) ==
  LET a == Coord(e, 0)
      b == Coord(e, 1)
  IN  IF o.next[a] # b THEN Throw(o)
      ELSE Accept([o EXCEPT !.next[a] = -1, !.sel = @ \ {e}])

OracleTryAdd(o, e) ==
  CASE o.kind = "partition" -> PartitionTryAdd(o, e)
    [] o.kind = "degree" -> DegreeTryAdd(o, e)
    [] OTHER -> AcyclicTryAdd(o, e)

OracleRemove(o, e) ==
  CASE o.kind = "partition" -> PartitionRemove(o, e)
    [] o.kind = "degree" -> DegreeRemove(o, e)
    [] OTHER -> AcyclicRemove(o, e)

(***************************************************************************)
(* The problem aggregator (MatroidProblem).  Its operations take and       *)
(* return an aggregator state [member, orc]; res is "true", "false" or     *)
(* "throw" (an exception leaves the state as it was when it was raised).   *)
(***************************************************************************)
Agg(m, o) == [member |-> m, orc |-> o]

\* Rollback with its loop started at i = 1: oracle 0 keeps the rejected element.
RECURSIVE RollbackFromOne(_, _, _, _)
RollbackFromOne(o, e, j, successfulAdditions) ==
  LET jj == IF j = 0 THEN 1 ELSE j IN
    IF jj >= successfulAdditions THEN [res |-> "false", orc |-> o]
    ELSE LET r == OracleRemove(o[jj], e) IN
           IF r.res = "throw" THEN [res |-> "throw", orc |-> o]
           ELSE RollbackFromOne([o EXCEPT ![jj] = r.o], e, jj + 1,
                                successfulAdditions)

\* for (int i = 0; i < successfulAdditions; i++) matroids_[i]->removeElement
RECURSIVE Rollback(_, _, _, _)
Rollback(o, e, j, successfulAdditions) ==
  IF j >= successfulAdditions THEN [res |-> "false", orc |-> o]
  ELSE LET r == OracleRemove(o[j], e) IN
         IF r.res = "throw" THEN [res |-> "throw", orc |-> o]
         ELSE Rollback([o EXCEPT ![j] = r.o], e, j + 1, successfulAdditions)

\* for (auto &matroid : matroids_), successfulAdditions = j
RECURSIVE TryAddLoop(_, _, _)
TryAddLoop(a, e, j) ==
  IF j = K THEN [res |-> "true", agg |-> Agg([a.member EXCEPT ![e] = TRUE], a.orc)]
  ELSE LET r == OracleTryAdd(a.orc[j], e) IN
         CASE r.res = "throw" -> [res |-> "throw", agg |-> a]
           [] r.res = "false" ->
                LET rb == Rollback(a.orc, e, 0, j)
                IN  [res |-> rb.res, agg |-> Agg(a.member, rb.orc)]
           [] OTHER -> TryAddLoop(Agg(a.member, [a.orc EXCEPT ![j] = r.o]), e, j + 1)

\* tryAddElement whose loop leaves out the last oracle.
RECURSIVE TryAddLoopSkipsLast(_, _, _)
TryAddLoopSkipsLast(a, e, j) ==
  IF j >= K - 1
    THEN [res |-> "true", agg |-> Agg([a.member EXCEPT ![e] = TRUE], a.orc)]
  ELSE LET r == OracleTryAdd(a.orc[j], e) IN
         CASE r.res = "throw" -> [res |-> "throw", agg |-> a]
           [] r.res = "false" ->
                LET rb == Rollback(a.orc, e, 0, j)
                IN  [res |-> rb.res, agg |-> Agg(a.member, rb.orc)]
           [] OTHER -> TryAddLoopSkipsLast(
                         Agg(a.member, [a.orc EXCEPT ![j] = r.o]), e, j + 1)

tryAddElementSkipsLast(a, e) == TryAddLoopSkipsLast(a, e, 0)

tryAddElement(a, e) == TryAddLoop(a, e, 0)

\* RemoveLoop that leaves out oracle 0.
RECURSIVE RemoveLoopFromOne(_, _, _)
RemoveLoopFromOne(o, e, j) ==
  LET jj == IF j = 0 THEN 1 ELSE j IN
    IF jj >= K THEN [res |-> "true", orc |-> o]
    ELSE LET r == OracleRemove(o[jj], e) IN
           IF r.res = "throw" THEN [res |-> "throw", orc |-> o]
           ELSE RemoveLoopFromOne([o EXCEPT ![jj] = r.o], e, jj + 1)

RECURSIVE RemoveLoop(_, _, _)
RemoveLoop(o, e, j) ==
  IF j = K THEN [res |-> "true", orc |-> o]
  ELSE LET r == OracleRemove(o[j], e) IN
         IF r.res = "throw" THEN [res |-> "throw", orc |-> o]
         ELSE RemoveLoop([o EXCEPT ![j] = r.o], e, j + 1)

\* removeElement without setMembership_[element] = false.
removeElementKeepsMember(a, e) ==
  IF ~a.member[e] THEN [res |-> "throw", agg |-> a]
  ELSE LET r == RemoveLoop(a.orc, e, 0) IN
         [res |-> r.res, agg |-> Agg(a.member, r.orc)]

\* removeElement whose loop leaves out the last oracle.
RECURSIVE RemoveLoopSkipsLast(_, _, _)
RemoveLoopSkipsLast(o, e, j) ==
  IF j >= K - 1 THEN [res |-> "true", orc |-> o]
  ELSE LET r == OracleRemove(o[j], e) IN
         IF r.res = "throw" THEN [res |-> "throw", orc |-> o]
         ELSE RemoveLoopSkipsLast([o EXCEPT ![j] = r.o], e, j + 1)

removeElementSkipsLast(a, e) ==
  IF ~a.member[e] THEN [res |-> "throw", agg |-> a]
  ELSE LET r == RemoveLoopSkipsLast(a.orc, e, 0) IN
         IF r.res = "throw" THEN [res |-> "throw", agg |-> Agg(a.member, r.orc)]
         ELSE [res |-> "true",
               agg |-> Agg([a.member EXCEPT ![e] = FALSE], r.orc)]

\* removeElement without the check of setMembership_[element].
removeElementUnchecked(a, e) ==
  LET r == RemoveLoop(a.orc, e, 0) IN
    IF r.res = "throw" THEN [res |-> "throw", agg |-> Agg(a.member, r.orc)]
    ELSE [res |-> "true",
          agg |-> Agg([a.member EXCEPT ![e] = FALSE], r.orc)]

removeElement(a, e) ==
  IF ~a.member[e] THEN [res |-> "throw", agg |-> a]
  ELSE LET r == RemoveLoop(a.orc, e, 0) IN
         IF r.res = "throw" THEN [res |-> "throw", agg |-> Agg(a.member, r.orc)]
         ELSE [res |-> "true",
               agg |-> Agg([a.member EXCEPT ![e] = FALSE], r.orc)]

\* for (int i = 0; i < groundSetSize_; i++) if (setMembership_[i]) removeElement(i)
RECURSIVE ResetLoop(_, _)
ResetLoop(a, e) ==
  IF e >= N THEN [res |-> "true", agg |-> a]
  ELSE IF a.member[e]
    THEN LET r == removeElement(a, e) IN
           IF r.res = "throw" THEN r ELSE ResetLoop(r.agg, e + 1)
    ELSE ResetLoop(a, e + 1)

\* reset whose loop starts at element 1.
resetFromOne(a) == ResetLoop(a, 1)

reset(a) == ResetLoop(a, 0)

(***************************************************************************)
(* ApproximationSolution records.  A ratio is kept exact: p/q, or the      *)
(* closed form 2/(3 + 2*s^(-0.3562)) of the k = 3 case at depth p = s.     *)
(***************************************************************************)
Rational(p, q) == [form |-> "p/q", p |-> p, q |-> q]
PowFormula(sv) == [form |-> "2/(3+2*p^-0.3562)", p |-> sv, q |-> 1]
One == Rational(1, 1)
Zero == Rational(0, 1)

ApproximationSolution(ratio, solution) ==
  [ratio |-> ratio, solution |-> solution]

NoRecord == [ratio |-> [form |-> "none", p |-> 0, q |-> 1], solution |-> << >>]

Image(sq) == {sq[j] : j \in DOMAIN sq}

(***************************************************************************)
(* BaselineAlgorithm::run                                                  *)
(***************************************************************************)
RECURSIVE BaselineLoop(_, _, _)
BaselineLoop(a, element, solution) ==
  IF element >= N THEN [res |-> "true", agg |-> a, solution |-> solution]
  ELSE LET r == tryAddElement(a, element) IN
         CASE r.res = "throw" -> [res |-> "throw", agg |-> r.agg, solution |-> solution]
           [] r.res = "true" -> BaselineLoop(r.agg, element + 1, Append(solution, element))
           [] OTHER -> BaselineLoop(r.agg, element + 1, solution)

\* BaselineRun whose sweep starts at element 1.
BaselineRunFromOne(a) ==
  LET r == BaselineLoop(a, 1, << >>) IN
    [res |-> r.res, agg |-> r.agg,
     record |-> IF r.res = "throw" THEN NoRecord
                ELSE ApproximationSolution(Rational(1, K), r.solution)]

BaselineRun(a) ==
  LET r == BaselineLoop(a, 0, << >>) IN
    [res |-> r.res, agg |-> r.agg,
     record |-> IF r.res = "throw" THEN NoRecord
                ELSE ApproximationSolution(Rational(1, K), r.solution)]

(***************************************************************************)
(* Kuhn2dMatchingAlgorithm::run                                            *)
(***************************************************************************)
\* graph[edges[edge_i][0]].push_back({edges[edge_i][1], edge_i})
RECURSIVE BuildGraph(_, _)
BuildGraph(graph, edge_i) ==
  IF edge_i >= N THEN graph
  ELSE BuildGraph([graph EXCEPT ![Coord(edge_i, 0)] =
                     Append(@, <<Coord(edge_i, 1), edge_i>>)], edge_i + 1)

KuhnInit ==
  [match_vertex |-> [u \in Vertices |-> -1],
   match_edge |-> [u \in Vertices |-> -1],
   isVisited |-> [v \in Vertices |-> FALSE],
   isMatched |-> [v \in Vertices |-> FALSE]]

Matched(ks, v, u, edge_i) ==
  [ks EXCEPT !.match_vertex[u] = v, !.match_edge[u] = edge_i,
             !.isMatched[v] = TRUE]

\* the lambda dfs; DfsEdges is its loop over graph[v] from position j
RECURSIVE dfs(_, _, _), DfsEdges(_, _, _, _)
dfs(graph, ks, v) ==
  IF ks.isVisited[v] THEN [ok |-> FALSE, ks |-> ks]
  ELSE DfsEdges(graph, [ks EXCEPT !.isVisited[v] = TRUE], v, 1)

DfsEdges(graph, ks, v, j) ==
  IF j > Len(graph[v]) THEN [ok |-> FALSE, ks |-> ks]
  ELSE LET u == graph[v][j][1]
           edge_i == graph[v][j][2]
       IN  IF ks.match_vertex[u] = -1
             THEN [ok |-> TRUE, ks |-> Matched(ks, v, u, edge_i)]
             ELSE LET r == dfs(graph, ks, ks.match_vertex[u]) IN
                    IF r.ok THEN [ok |-> TRUE, ks |-> Matched(r.ks, v, u, edge_i)]
                    ELSE DfsEdges(graph, r.ks, v, j + 1)

\* for (int v = 0; v < n; v++) if (!isVisited[v] && !isMatched[v] && dfs(v)) any = true
RECURSIVE KuhnPass(_, _, _, _)
KuhnPass(graph, ks, v, any) ==
  IF v >= inst.n THEN [any |-> any, ks |-> ks]
  ELSE IF ~ks.isVisited[v] /\ ~ks.isMatched[v]
    THEN LET r == dfs(graph, ks, v) IN KuhnPass(graph, r.ks, v + 1, any \/ r.ok)
    ELSE KuhnPass(graph, ks, v + 1, any)

\* KuhnLoop with a single pass instead of do ... while (any).
KuhnLoopOnce(graph, ks) ==
  KuhnPass(graph, [ks EXCEPT !.isVisited = [v \in Vertices |-> FALSE]],
           0, FALSE).ks

\* do { any = false; fill(isVisited, false); ... } while (any)
RECURSIVE KuhnLoop(_, _)
KuhnLoop(graph, ks) ==
  LET r == KuhnPass(graph, [ks EXCEPT !.isVisited = [v \in Vertices |-> FALSE]],
                    0, FALSE)
  IN  IF r.any THEN KuhnLoop(graph, r.ks) ELSE r.ks

\* for (int v = 0; v < n; v++) if (match_vertex[v] != -1) solution.push_back(match_edge[v])
RECURSIVE KuhnCollect(_, _, _)
KuhnCollect(ks, v, solution) ==
  IF v >= inst.n THEN solution
  ELSE KuhnCollect(ks, v + 1,
         IF ks.match_vertex[v] # -1 THEN Append(solution, ks.match_edge[v])
         ELSE solution)

KuhnFinal == KuhnLoop(BuildGraph([v \in Vertices |-> << >>], 0), KuhnInit)

KuhnRun == ApproximationSolution(One, KuhnCollect(KuhnFinal, 0, << >>))

(***************************************************************************)
(* computeApproximationRatio, convertMaskToSolution                        *)
(***************************************************************************)
\* computeApproximationRatio with the k = 2 fraction turned upside down.
computeApproximationRatioInverted(sv, k) ==
  IF sv = 0 THEN [res |-> "true", ratio |-> Rational(1, k)]
  ELSE IF k = 2 THEN [res |-> "true", ratio |-> Rational(sv + 2, sv + 1)]
  ELSE IF k # 3 THEN [res |-> "throw", ratio |-> Zero]
  ELSE [res |-> "true", ratio |-> PowFormula(sv)]

computeApproximationRatio(sv, k) ==
  IF sv = 0 THEN [res |-> "true", ratio |-> Rational(1, k)]
  ELSE IF k = 2 THEN [res |-> "true", ratio |-> Rational(sv + 1, sv + 2)]
  ELSE IF k # 3 THEN [res |-> "throw", ratio |-> Zero]
  ELSE [res |-> "true", ratio |-> PowFormula(sv)]

RECURSIVE MaskLoop(_, _, _)
MaskLoop(mask, idx, solution) ==
  IF idx >= Cardinality(DOMAIN mask) THEN solution
  ELSE MaskLoop(mask, idx + 1,
                IF mask[idx] THEN Append(solution, idx) ELSE solution)

\* convertMaskToSolution whose loop starts at index 1.
convertMaskToSolutionFromOne(mask) == MaskLoop(mask, 1, << >>)

convertMaskToSolution(mask) == MaskLoop(mask, 0, << >>)

(***************************************************************************)
(* validation.cpp.  Each validator yields "ok" or the message it throws.   *)
(***************************************************************************)
IsSorted(sq) == \A j \in 1 .. Len(sq) - 1 : sq[j] <= sq[j + 1]
Count(sq, x) == Cardinality({j \in DOMAIN sq : sq[j] = x})
\* std::sort of a copy
Sort(sq) ==
  CHOOSE t \in [DOMAIN sq -> Image(sq)] :
    IsSorted(t) /\ \A x \in Image(sq) : Count(t, x) = Count(sq, x)

RECURSIVE CheckSetLoop(_, _, _)
CheckSetLoop(sorted, j, groundSetSize) ==
  IF j > Len(sorted) THEN "ok"
  ELSE IF j > 1 /\ sorted[j] = sorted[j - 1]
    THEN "Solution error: Duplicate element in solution"
  ELSE IF sorted[j] < 0 \/ sorted[j] >= groundSetSize
    THEN "Solution error: Element out of bounds"
  ELSE CheckSetLoop(sorted, j + 1, groundSetSize)

check_solution_set(groundSetSize, solution) ==
  CheckSetLoop(Sort(solution), 1, groundSetSize)

EdgesInBounds ==
  \A e \in Elements : \A c \in Range(Len(inst.edges[e + 1])) :
     Coord(e, c) >= 0 /\ Coord(e, c) < inst.n

\* used_vertices[p][edge[p]] over the solution in order, for p < dims
RECURSIVE UsedLoop(_, _, _, _)
UsedLoop(solution, j, used, dims) ==
  IF j > Len(solution) THEN "ok"
  ELSE LET e == solution[j] IN
         IF \E p \in Range(dims) : used[p][Coord(e, p)]
           THEN "Solution error: Vertex already used"
           ELSE UsedLoop(solution, j + 1,
                  [p \in Range(dims) |-> [used[p] EXCEPT ![Coord(e, p)] = TRUE]],
                  dims)

validate_matching(dims, solution) ==
  IF ~EdgesInBounds \/ \E e \in Elements : Len(inst.edges[e + 1]) # dims
    THEN "Input failed validation"
  ELSE LET c == check_solution_set(N, solution) IN
    IF c # "ok" THEN c
    ELSE UsedLoop(solution, 1,
                  [p \in Range(dims) |-> [v \in Vertices |-> FALSE]], dims)

\* incoming / outgoing : vertex -> edge index, -1 for none
RECURSIVE DegreeLoop(_, _, _, _)
DegreeLoop(solution, j, incoming, outgoing) ==
  IF j > Len(solution)
    THEN [res |-> "ok", incoming |-> incoming, outgoing |-> outgoing]
  ELSE LET edge_idx == solution[j]
           from_vertex == Coord(edge_idx, 0)
           to_vertex == Coord(edge_idx, 1)
       IN  IF incoming[to_vertex] # -1
             THEN [res |-> "Solution error: Vertex has multiple incoming edges",
                   incoming |-> incoming, outgoing |-> outgoing]
           ELSE IF outgoing[from_vertex] # -1
             THEN [res |-> "Solution error: Vertex has multiple outgoing edges",
                   incoming |-> incoming, outgoing |-> outgoing]
           ELSE DegreeLoop(solution, j + 1,
                           [incoming EXCEPT ![to_vertex] = edge_idx],
                           [outgoing EXCEPT ![from_vertex] = edge_idx])

\* while (outgoing[cur] != -1) { cur = edges[outgoing[cur]].second; ... }
RECURSIVE CycleWalk(_, _, _, _)
CycleWalk(outgoing, visited, c, iter) ==
  IF outgoing[c] = -1 THEN [cycle |-> FALSE, visited |-> visited]
  ELSE LET nx == Coord(outgoing[c], 1) IN
         IF visited[nx] # 0
           THEN [cycle |-> visited[nx] = iter, visited |-> visited]
           ELSE CycleWalk(outgoing, [visited EXCEPT ![nx] = iter], nx, iter)

RECURSIVE CycleLoop(_, _, _, _)
CycleLoop(outgoing, visited, v, iter) ==
  IF v >= inst.n THEN "ok"
  ELSE IF visited[v] = 0
    THEN LET w == CycleWalk(outgoing, visited, v, iter) IN
           IF w.cycle THEN "Solution error: Cycle detected"
           ELSE CycleLoop(outgoing, w.visited, v + 1, iter + 1)
    ELSE CycleLoop(outgoing, visited, v + 1, iter)

validate_hamiltonian_path(solution) ==
  IF ~EdgesInBounds THEN "Input failed validation"
  ELSE LET c == check_solution_set(N, solution) IN
    IF c # "ok" THEN c
    ELSE IF solution = << >> THEN "ok"
    ELSE LET d == DegreeLoop(solution, 1, [v \in Vertices |-> -1],
                             [v \in Vertices |-> -1])
         IN  IF d.res # "ok" THEN d.res
             ELSE CycleLoop(d.outgoing, [v \in Vertices |-> 0], 0, 1)

HasValidator ==
  inst.kind = "hamiltonian" \/ (inst.kind = "matching" /\ K \in {2, 3})

\* the validator main.cpp applies to the instance's kind
Validate(solution) ==
  IF inst.kind = "hamiltonian" THEN validate_hamiltonian_path(solution)
  ELSE validate_matching(K, solution)

(***************************************************************************)
(* State after construction.                                               *)
(***************************************************************************)
RCall(idx, removeQuantity, addQuantity) ==
  [kind |-> "R", idx |-> idx, removeQuantity |-> removeQuantity,
   addQuantity |-> addQuantity, val |-> FALSE]
ACall(idx, addQuantity) ==
  [kind |-> "A", idx |-> idx, removeQuantity |-> 0,
   addQuantity |-> addQuantity, val |-> FALSE]
Ret(v) ==
  [kind |-> "ret", idx |-> 0, removeQuantity |-> 0, addQuantity |-> 0, val |-> v]

NotFired == "none"

NoCall == [op |-> "none", e |-> 0, res |-> "none"]

NoPrevious == [pc |-> "none", baseline |-> NoRecord, kuhn |-> NoRecord,
               solutions |-> << >>]

Snapshot == [member |-> member, orc |-> orc, solutionMask |-> solutionMask,
             justRemoved |-> justRemoved]

InitOver(instances, start) ==
  /\ inst \in instances
  /\ member = [e \in Elements |-> FALSE]
  /\ orc = BuildOracles
  /\ last = NoCall
  /\ pc = start
  /\ baseline = NoRecord
  /\ kuhn = NoRecord
  /\ solutions = << >>
  /\ emitted = << >>
  /\ solutionMask = [e \in Elements |-> FALSE]
  /\ justRemoved = [e \in Elements |-> FALSE]
  /\ elapsedSeconds = 0
  /\ timeLimitExceeded = FALSE
  /\ s = 0
  /\ i = 0
  /\ success = FALSE
  /\ solutionSize = 0
  /\ cur = Ret(FALSE)
  /\ stack = << >>
  /\ attempt = [member |-> member, orc |-> orc,
                solutionMask |-> solutionMask, justRemoved |-> justRemoved]
  /\ fired = NotFired
  /\ error = "none"
  /\ previous = NoPrevious

InitAt(start) == InitOver(Instances, start)

runVars == <<solutions, emitted, solutionMask, justRemoved, elapsedSeconds,
             timeLimitExceeded, s, i, success, solutionSize, cur, stack,
             attempt, fired>>

(***************************************************************************)
(* The aggregator's public operations, called in any order by a client.    *)
(***************************************************************************)
ApiTryAdd(e) ==
  /\ pc = "api"
  /\ LET r == tryAddElement(Agg(member, orc), e) IN
       /\ member' = r.agg.member
       /\ orc' = r.agg.orc
       /\ last' = [op |-> "try_add", e |-> e, res |-> r.res]
  /\ UNCHANGED <<inst, previous, pc, baseline, kuhn, runVars, error>>

ApiRemove(e) ==
  /\ pc = "api"
  /\ LET r == removeElement(Agg(member, orc), e) IN
       /\ member' = r.agg.member
       /\ orc' = r.agg.orc
       /\ last' = [op |-> "remove", e |-> e, res |-> r.res]
  /\ UNCHANGED <<inst, previous, pc, baseline, kuhn, runVars, error>>

ApiReset ==
  /\ pc = "api"
  /\ LET r == reset(Agg(member, orc)) IN
       /\ member' = r.agg.member
       /\ orc' = r.agg.orc
       /\ last' = [op |-> "reset", e |-> 0, res |-> r.res]
  /\ UNCHANGED <<inst, previous, pc, baseline, kuhn, runVars, error>>

ApiNext ==
  \/ \E e \in Elements : ApiTryAdd(e)
  \/ \E e \in Elements : ApiRemove(e)
  \/ ApiReset

\* the aggregator takes no time limit: one value of it is enough here
InitAgg == InitAt("api") /\ inst.timeLimit = 0

SpecAgg == InitAgg /\ [][ApiNext]_vars

(***************************************************************************)
(* main.cpp: baseline, reset, Kuhn (bipartite only), reset, local search,  *)
(* validation of every emitted selection.                                  *)
(***************************************************************************)
IsBipartite == inst.kind = "matching" /\ K = 2

Fail(msg) == pc' = "failed" /\ error' = msg

MainBaseline ==
  /\ pc = "baseline"
  /\ LET r == BaselineRun(Agg(member, orc)) IN
       /\ member' = r.agg.member
       /\ orc' = r.agg.orc
       /\ baseline' = r.record
       /\ IF r.res = "throw" THEN Fail("InvalidOperation")
          ELSE pc' = "reset" /\ error' = error
  /\ UNCHANGED <<inst, previous, last, kuhn, runVars>>

\* matchingProblem->reset() before Kuhn (bipartite) and before local search
MainReset ==
  /\ pc \in {"reset", "reset_ls"}
  /\ LET r == reset(Agg(member, orc)) IN
       /\ member' = r.agg.member
       /\ orc' = r.agg.orc
       /\ IF r.res = "throw" THEN Fail("InvalidOperation")
          ELSE /\ pc' = IF pc = "reset" /\ IsBipartite THEN "kuhn" ELSE "ls_init"
               /\ error' = error
  /\ UNCHANGED <<inst, previous, last, baseline, kuhn, runVars>>

MainKuhn ==
  /\ pc = "kuhn"
  /\ kuhn' = KuhnRun
  /\ pc' = "reset_ls"
  /\ UNCHANGED <<inst, previous, member, orc, last, baseline, runVars, error>>

\* BaselineAlgorithm::run alone; it takes no time limit
InitBaseline == InitAt("baseline") /\ inst.timeLimit = 0

SpecBaseline == InitBaseline /\ [][MainBaseline]_vars

(***************************************************************************)
(* LocalSearchAlgorithm::run.  The recursion of removeAndAddElements and   *)
(* addElements is run frame by frame: cur is the call being entered (or    *)
(* the value being returned) and stack holds the frames that made a        *)
(* speculative change and wait for their recursive call to return.  A      *)
(* call in return position (return self(...)) replaces the current call.   *)
(***************************************************************************)
LsPcs == {"ls_step", "ls_pass", "ls_attempt", "ls_call", "ls_afterFor", "ls_emit"}

\* the steady clock advances; the run only reads it in checkTimeLimit
Tick ==
  /\ pc \in LsPcs
  /\ elapsedSeconds < inst.timeLimit
  /\ elapsedSeconds' = elapsedSeconds + 1
  /\ UNCHANGED <<inst, previous, member, orc, last, pc, baseline, kuhn, solutions,
                 emitted, solutionMask, justRemoved, timeLimitExceeded, s, i,
                 success, solutionSize, cur, stack, attempt, fired, error>>

\* elapsedSeconds >= timeLimitSeconds_
checkTimeLimit == elapsedSeconds >= inst.timeLimit

\* LsInit that keeps solutionMask from an earlier call of run().
LsInitKeepsMask ==
  /\ pc = "ls_init"
  /\ solutions' = << >>
  /\ emitted' = << >>
  /\ justRemoved' = [e \in Elements |-> FALSE]
  /\ elapsedSeconds' = 0
  /\ timeLimitExceeded' = FALSE
  /\ solutionSize' = 0
  /\ s' = 0
  /\ pc' = "ls_step"
  /\ UNCHANGED <<inst, previous, member, orc, last, baseline, kuhn, i, success,
                 cur, stack, attempt, fired, error, solutionMask>>

\* locals of run(): solutions, masks, startTime, timeLimitExceeded, solutionSize, s
LsInit ==
  /\ pc = "ls_init"
  /\ solutions' = << >>
  /\ emitted' = << >>
  /\ solutionMask' = [e \in Elements |-> FALSE]
  /\ justRemoved' = [e \in Elements |-> FALSE]
  /\ elapsedSeconds' = 0
  /\ timeLimitExceeded' = FALSE
  /\ solutionSize' = 0
  /\ s' = 0
  /\ pc' = "ls_step"
  /\ UNCHANGED <<inst, previous, member, orc, last, baseline, kuhn, i, success, cur,
                 stack, attempt, fired, error>>

\* for (int s = 0;; ++s) { if (checkTimeLimit()) break; ...
LsStep ==
  /\ pc = "ls_step"
  /\ IF checkTimeLimit
       THEN /\ timeLimitExceeded' = TRUE
            /\ fired' = "step"
            /\ pc' = "validate"
       ELSE UNCHANGED <<timeLimitExceeded, fired>> /\ pc' = "ls_pass"
  /\ UNCHANGED <<inst, previous, member, orc, last, baseline, kuhn, solutions, emitted,
                 solutionMask, justRemoved, elapsedSeconds, s, i, success,
                 solutionSize, cur, stack, attempt, error>>

\* LsPass whose for loop starts at i = 1.
LsPassFromOne ==
  /\ pc = "ls_pass"
  /\ IF timeLimitExceeded
       THEN /\ pc' = "ls_emit"
            /\ UNCHANGED <<success, justRemoved, i>>
       ELSE /\ success' = FALSE
            /\ justRemoved' = [e \in Elements |-> FALSE]
            /\ i' = 1
            /\ pc' = "ls_attempt"
  /\ UNCHANGED <<inst, previous, member, orc, last, baseline, kuhn, solutions, emitted,
                 solutionMask, elapsedSeconds, timeLimitExceeded, s,
                 solutionSize, cur, stack, attempt, fired, error>>

\* do { if (timeLimitExceeded) break; success = false; fill(justRemoved); for (i = 0; ...
LsPass ==
  /\ pc = "ls_pass"
  /\ IF timeLimitExceeded
       THEN /\ pc' = "ls_emit"
            /\ UNCHANGED <<success, justRemoved, i>>
       ELSE /\ success' = FALSE
            /\ justRemoved' = [e \in Elements |-> FALSE]
            /\ i' = 0
            /\ pc' = "ls_attempt"
  /\ UNCHANGED <<inst, previous, member, orc, last, baseline, kuhn, solutions, emitted,
                 solutionMask, elapsedSeconds, timeLimitExceeded, s,
                 solutionSize, cur, stack, attempt, fired, error>>

\* LsAttempt with the loop condition i < s.
LsAttemptShort ==
  /\ pc = "ls_attempt"
  /\ IF i < s /\ ~timeLimitExceeded
       THEN /\ cur' = RCall(0, i, i + 1)
            /\ stack' = << >>
            /\ attempt' = Snapshot
            /\ pc' = "ls_call"
       ELSE /\ pc' = "ls_afterFor"
            /\ UNCHANGED <<cur, stack, attempt>>
  /\ UNCHANGED <<inst, previous, member, orc, last, baseline, kuhn, solutions, emitted,
                 solutionMask, justRemoved, elapsedSeconds, timeLimitExceeded,
                 s, i, success, solutionSize, fired, error>>

\* for (...; i <= s; ...) { if (timeLimitExceeded) break; removeAndAddElements(0, i, i + 1)
LsAttempt ==
  /\ pc = "ls_attempt"
  /\ IF i <= s /\ ~timeLimitExceeded
       THEN /\ cur' = RCall(0, i, i + 1)
            /\ stack' = << >>
            /\ attempt' = Snapshot
            /\ pc' = "ls_call"
       ELSE /\ pc' = "ls_afterFor"
            /\ UNCHANGED <<cur, stack, attempt>>
  /\ UNCHANGED <<inst, previous, member, orc, last, baseline, kuhn, solutions, emitted,
                 solutionMask, justRemoved, elapsedSeconds, timeLimitExceeded,
                 s, i, success, solutionSize, fired, error>>

\* UndoRemove that does not put the removed element back.
UndoRemoveForgetsReAdd(a, mask, jr, f) ==
  [res |-> "true", agg |-> a,
   justRemoved |-> [jr EXCEPT ![f.idx] = FALSE],
   solutionMask |-> mask,
   cur |-> RCall(f.idx + 1, f.removeQuantity, f.addQuantity)]

\* UndoAdd that clears solutionMask[idx] without removeElement(idx).
UndoAddKeepsElement(a, mask, jr, f) ==
  [res |-> "true", agg |-> a, justRemoved |-> jr,
   solutionMask |-> [mask EXCEPT ![f.idx] = FALSE],
   cur |-> ACall(f.idx + 1, f.addQuantity)]

\* removeAndAddElements, after self(idx + 1, removeQuantity - 1, ...) returned
\* false in frame f: justRemoved[idx] = false; if (!tryAddElement(idx)) throw;
\* solutionMask[idx] = true; return self(idx + 1, removeQuantity, addQuantity)
UndoRemove(a, mask, jr, f) ==
  LET r == tryAddElement(a, f.idx) IN
    [res |-> CASE r.res = "true" -> "true"
               [] r.res = "throw" -> "InvalidOperation"
               [] OTHER -> "Failed to add element",
     agg |-> r.agg,
     justRemoved |-> [jr EXCEPT ![f.idx] = FALSE],
     solutionMask |-> IF r.res = "true" THEN [mask EXCEPT ![f.idx] = TRUE]
                      ELSE mask,
     cur |-> RCall(f.idx + 1, f.removeQuantity, f.addQuantity)]

\* addElements, after self(idx + 1, addQuantity - 1) returned false in frame f:
\* removeElement(idx); solutionMask[idx] = false; return self(idx + 1, addQuantity)
UndoAdd(a, mask, jr, f) ==
  LET r == removeElement(a, f.idx) IN
    [res |-> IF r.res = "throw" THEN "InvalidOperation" ELSE "true",
     agg |-> r.agg,
     justRemoved |-> jr,
     solutionMask |-> IF r.res = "throw" THEN mask
                      ELSE [mask EXCEPT ![f.idx] = FALSE],
     cur |-> ACall(f.idx + 1, f.addQuantity)]

\* entry of removeAndAddElements(idx, removeQuantity, addQuantity)
removeAndAddElements ==
  /\ pc = "ls_call"
  /\ cur.kind = "R"
  /\ IF checkTimeLimit THEN
       /\ timeLimitExceeded' = TRUE
       /\ fired' = IF timeLimitExceeded THEN fired
                   ELSE IF stack = << >> THEN "entry" ELSE "nested"
       /\ cur' = Ret(FALSE)
       /\ UNCHANGED <<member, orc, solutionMask, justRemoved, stack, pc, error>>
     ELSE IF cur.removeQuantity = 0 THEN
       /\ cur' = ACall(0, cur.addQuantity)
       /\ UNCHANGED <<member, orc, solutionMask, justRemoved, stack, pc, error,
                      timeLimitExceeded, fired>>
     ELSE IF cur.idx = N THEN
       /\ cur' = Ret(FALSE)
       /\ UNCHANGED <<member, orc, solutionMask, justRemoved, stack, pc, error,
                      timeLimitExceeded, fired>>
     ELSE IF solutionMask[cur.idx] THEN
       LET r == removeElement(Agg(member, orc), cur.idx) IN
         /\ member' = r.agg.member
         /\ orc' = r.agg.orc
         /\ UNCHANGED <<timeLimitExceeded, fired>>
         /\ IF r.res = "throw"
              THEN /\ Fail("InvalidOperation")
                   /\ UNCHANGED <<solutionMask, justRemoved, stack, cur>>
              ELSE /\ solutionMask' = [solutionMask EXCEPT ![cur.idx] = FALSE]
                   /\ justRemoved' = [justRemoved EXCEPT ![cur.idx] = TRUE]
                   /\ stack' = Append(stack, cur)
                   /\ cur' = RCall(cur.idx + 1, cur.removeQuantity - 1,
                                   cur.addQuantity)
                   /\ UNCHANGED <<pc, error>>
     ELSE
       /\ cur' = RCall(cur.idx + 1, cur.removeQuantity, cur.addQuantity)
       /\ UNCHANGED <<member, orc, solutionMask, justRemoved, stack, pc, error,
                      timeLimitExceeded, fired>>
  /\ UNCHANGED <<inst, previous, last, baseline, kuhn, solutions, emitted,
                 elapsedSeconds, s, i, success, solutionSize, attempt>>

\* entry of addElements(idx, addQuantity)
addElements ==
  /\ pc = "ls_call"
  /\ cur.kind = "A"
  /\ IF checkTimeLimit THEN
       /\ timeLimitExceeded' = TRUE
       /\ fired' = IF timeLimitExceeded THEN fired
                   ELSE IF stack = << >> THEN "entry" ELSE "nested"
       /\ cur' = Ret(FALSE)
       /\ UNCHANGED <<member, orc, solutionMask, stack, pc, error>>
     ELSE IF cur.addQuantity = 0 THEN
       /\ cur' = Ret(TRUE)
       /\ UNCHANGED <<member, orc, solutionMask, stack, pc, error,
                      timeLimitExceeded, fired>>
     ELSE IF cur.idx = N THEN
       /\ cur' = Ret(FALSE)
       /\ UNCHANGED <<member, orc, solutionMask, stack, pc, error,
                      timeLimitExceeded, fired>>
     ELSE IF justRemoved[cur.idx] \/ solutionMask[cur.idx] THEN
       /\ cur' = ACall(cur.idx + 1, cur.addQuantity)
       /\ UNCHANGED <<member, orc, solutionMask, stack, pc, error,
                      timeLimitExceeded, fired>>
     ELSE
       LET r == tryAddElement(Agg(member, orc), cur.idx) IN
         /\ member' = r.agg.member
         /\ orc' = r.agg.orc
         /\ UNCHANGED <<timeLimitExceeded, fired>>
         /\ CASE r.res = "throw" ->
                   /\ Fail("InvalidOperation")
                   /\ UNCHANGED <<solutionMask, stack, cur>>
              [] r.res = "true" ->
                   /\ solutionMask' = [solutionMask EXCEPT ![cur.idx] = TRUE]
                   /\ stack' = Append(stack, cur)
                   /\ cur' = ACall(cur.idx + 1, cur.addQuantity - 1)
                   /\ UNCHANGED <<pc, error>>
              [] OTHER ->
                   /\ cur' = ACall(cur.idx + 1, cur.addQuantity)
                   /\ UNCHANGED <<solutionMask, stack, pc, error>>
  /\ UNCHANGED <<inst, previous, last, baseline, kuhn, solutions, emitted, justRemoved,
                 elapsedSeconds, s, i, success, solutionSize, attempt>>

\* a recursive call returns into the frame that made it: on true the frame
\* returns true; on false it undoes its change and goes on to idx + 1
LsReturn ==
  /\ pc = "ls_call"
  /\ cur.kind = "ret"
  /\ stack # << >>
  /\ LET f == stack[Len(stack)]
         u == IF f.kind = "R"
                THEN UndoRemove(Agg(member, orc), solutionMask, justRemoved, f)
                ELSE UndoAdd(Agg(member, orc), solutionMask, justRemoved, f)
     IN  /\ stack' = SubSeq(stack, 1, Len(stack) - 1)
         /\ IF cur.val THEN
              UNCHANGED <<cur, member, orc, solutionMask, justRemoved, pc, error>>
            ELSE
              /\ member' = u.agg.member
              /\ orc' = u.agg.orc
              /\ solutionMask' = u.solutionMask
              /\ justRemoved' = u.justRemoved
              /\ IF u.res = "true"
                   THEN cur' = u.cur /\ UNCHANGED <<pc, error>>
                   ELSE Fail(u.res) /\ cur' = cur
  /\ UNCHANGED <<inst, previous, last, baseline, kuhn, solutions, emitted,
                 elapsedSeconds, timeLimitExceeded, s, i, success,
                 solutionSize, attempt, fired>>

\* LsAttemptEnd that does not count the applied exchange.
LsAttemptEndKeepsSize ==
  /\ pc = "ls_call"
  /\ cur.kind = "ret"
  /\ stack = << >>
  /\ IF cur.val
       THEN /\ solutionSize' = solutionSize
            /\ success' = TRUE
            /\ pc' = "ls_afterFor"
            /\ i' = i
       ELSE /\ i' = i + 1
            /\ pc' = "ls_attempt"
            /\ UNCHANGED <<solutionSize, success>>
  /\ UNCHANGED <<inst, previous, member, orc, last, baseline, kuhn, solutions, emitted,
                 solutionMask, justRemoved, elapsedSeconds, timeLimitExceeded,
                 s, cur, stack, attempt, fired, error>>

\* if (removeAndAddElements(0, i, i + 1)) { ++solutionSize; success = true; break; }
LsAttemptEnd ==
  /\ pc = "ls_call"
  /\ cur.kind = "ret"
  /\ stack = << >>
  /\ IF cur.val
       THEN /\ solutionSize' = solutionSize + 1
            /\ success' = TRUE
            /\ pc' = "ls_afterFor"
            /\ i' = i
       ELSE /\ i' = i + 1
            /\ pc' = "ls_attempt"
            /\ UNCHANGED <<solutionSize, success>>
  /\ UNCHANGED <<inst, previous, member, orc, last, baseline, kuhn, solutions, emitted,
                 solutionMask, justRemoved, elapsedSeconds, timeLimitExceeded,
                 s, cur, stack, attempt, fired, error>>

\* if (s == solutionSize) break; } while (success && !timeLimitExceeded);
LsAfterFor ==
  /\ pc = "ls_afterFor"
  /\ pc' = IF s = solutionSize THEN "ls_emit"
           ELSE IF success /\ ~timeLimitExceeded THEN "ls_pass"
           ELSE "ls_emit"
  /\ UNCHANGED <<inst, previous, member, orc, last, baseline, kuhn, solutions, emitted,
                 solutionMask, justRemoved, elapsedSeconds, timeLimitExceeded,
                 s, i, success, solutionSize, cur, stack, attempt, fired,
                 error>>

EmitMeta == [member |-> member, s |-> s, deadline |-> timeLimitExceeded,
             solutionSize |-> solutionSize]

\* LsEmit whose deadline branch takes the ratio of depth s instead of s - 1.
LsEmitDeadlineAtDepth ==
  /\ pc = "ls_emit"
  /\ IF timeLimitExceeded THEN
       LET c == IF s = 0 THEN [res |-> "true", ratio |-> Zero]
                ELSE computeApproximationRatio(s, K)
       IN  IF c.res = "throw"
             THEN Fail("Unsupported") /\ UNCHANGED <<solutions, emitted, s>>
             ELSE /\ solutions' = Append(solutions,
                       ApproximationSolution(c.ratio, convertMaskToSolution(solutionMask)))
                  /\ emitted' = Append(emitted, EmitMeta)
                  /\ pc' = "validate"
                  /\ UNCHANGED <<s, error>>
     ELSE
       LET c == computeApproximationRatio(s, K)
           ratio == IF s = solutionSize THEN One ELSE c.ratio
       IN  IF c.res = "throw"
             THEN Fail("Unsupported") /\ UNCHANGED <<solutions, emitted, s>>
             ELSE /\ solutions' = Append(solutions,
                       ApproximationSolution(ratio, convertMaskToSolution(solutionMask)))
                  /\ emitted' = Append(emitted, EmitMeta)
                  /\ IF s = solutionSize
                       THEN pc' = "validate" /\ s' = s
                       ELSE pc' = "ls_step" /\ s' = s + 1
                  /\ error' = error
  /\ UNCHANGED <<inst, previous, member, orc, last, baseline, kuhn, solutionMask,
                 justRemoved, elapsedSeconds, timeLimitExceeded, i, success,
                 solutionSize, cur, stack, attempt, fired>>

\* the if (timeLimitExceeded) { ... } else { ... } that ends the body of for (s)
LsEmit ==
  /\ pc = "ls_emit"
  /\ IF timeLimitExceeded THEN
       LET c == IF s = 0 THEN [res |-> "true", ratio |-> Zero]
                ELSE computeApproximationRatio(s - 1, K)
       IN  IF c.res = "throw"
             THEN Fail("Unsupported") /\ UNCHANGED <<solutions, emitted, s>>
             ELSE /\ solutions' = Append(solutions,
                       ApproximationSolution(c.ratio, convertMaskToSolution(solutionMask)))
                  /\ emitted' = Append(emitted, EmitMeta)
                  /\ pc' = "validate"
                  /\ UNCHANGED <<s, error>>
     ELSE
       LET c == computeApproximationRatio(s, K)
           ratio == IF s = solutionSize THEN One ELSE c.ratio
       IN  IF c.res = "throw"
             THEN Fail("Unsupported") /\ UNCHANGED <<solutions, emitted, s>>
             ELSE /\ solutions' = Append(solutions,
                       ApproximationSolution(ratio, convertMaskToSolution(solutionMask)))
                  /\ emitted' = Append(emitted, EmitMeta)
                  /\ IF s = solutionSize
                       THEN pc' = "validate" /\ s' = s
                       ELSE pc' = "ls_step" /\ s' = s + 1
                  /\ error' = error
  /\ UNCHANGED <<inst, previous, member, orc, last, baseline, kuhn, solutionMask,
                 justRemoved, elapsedSeconds, timeLimitExceeded, i, success,
                 solutionSize, cur, stack, attempt, fired>>

\* validate_*(n, edges, ...) of the baseline, Kuhn and local-search selections
AllRecords ==
  (IF baseline = NoRecord THEN << >> ELSE <<baseline>>)
    \o (IF kuhn = NoRecord THEN << >> ELSE <<kuhn>>) \o solutions

MainValidate ==
  /\ pc = "validate"
  /\ IF HasValidator
          /\ \E j \in DOMAIN AllRecords : Validate(AllRecords[j].solution) # "ok"
       THEN Fail("Solution error")
       ELSE pc' = "done" /\ error' = error
  /\ UNCHANGED <<inst, previous, member, orc, last, baseline, kuhn, runVars>>

Next ==
  \/ MainBaseline
  \/ MainReset
  \/ MainKuhn
  \/ LsInit
  \/ Tick
  \/ LsStep
  \/ LsPass
  \/ LsAttempt
  \/ removeAndAddElements
  \/ addElements
  \/ LsReturn
  \/ LsAttemptEnd
  \/ LsAfterFor
  \/ LsEmit
  \/ MainValidate

Spec == InitAt("baseline") /\ [][Next]_vars

(***************************************************************************)
(* A client that, after the algorithms ended without the deadline firing,  *)
(* resets the aggregator and runs the same sequence once more on the same  *)
(* instance.  solutionMask and the other locals of run() are constructed   *)
(* anew by the second call (LsInit).                                       *)
(***************************************************************************)
Rerun ==
  /\ pc \in {"done", "failed"}
  /\ ~timeLimitExceeded
  /\ previous = NoPrevious
  /\ previous' = [pc |-> pc, baseline |-> baseline, kuhn |-> kuhn,
                  solutions |-> solutions]
  /\ LET r == reset(Agg(member, orc)) IN
       /\ member' = r.agg.member
       /\ orc' = r.agg.orc
       /\ pc' = IF r.res = "throw" THEN "stopped" ELSE "baseline"
  /\ baseline' = NoRecord
  /\ kuhn' = NoRecord
  /\ error' = "none"
  /\ UNCHANGED <<inst, last, runVars>>

NextRerun == Next \/ Rerun

SpecRerun == InitAt("baseline") /\ [][NextRerun]_vars

(***************************************************************************)
(* Independence in the instance's matroids, stated on sets of elements.    *)
(***************************************************************************)
Selected == {e \in Elements : member[e]}

\* at most one element of T per vertex of coordinate c
OnePerVertex(T, c) ==
  \A e \in T : \A f \in T : e # f => Coord(e, c) # Coord(f, c)

EdgePairs(T) == {<<Coord(e, 0), Coord(e, 1)>> : e \in T}

RECURSIVE Closure(_, _)
Closure(R, m) ==
  IF m = 0 THEN R
  ELSE Closure(R \cup {<<pq[1][1], pq[2][2]>> :
                         pq \in {x \in R \X R : x[1][2] = x[2][1]}},
               m - 1)

HasCycle(T) == \E v \in Vertices : <<v, v>> \in Closure(EdgePairs(T), inst.n)

\* T is independent in matroid j of the instance
IndependentIn(T, j) ==
  IF inst.kind = "matching" THEN OnePerVertex(T, j)
  ELSE CASE j = 0 -> OnePerVertex(T, 0)
         [] j = 1 -> OnePerVertex(T, 1)
         [] OTHER -> ~HasCycle(T)

Feasible(T) == \A j \in Range(K) : IndependentIn(T, j)

MaxFeasibleSize ==
  CHOOSE m \in 0 .. N :
    /\ \E T \in SUBSET Elements : Feasible(T) /\ Cardinality(T) = m
    /\ \A T \in SUBSET Elements : Feasible(T) => Cardinality(T) <= m

(***************************************************************************)
(* C1.  A rejected aggregator try_add leaves the aggregator as it was:     *)
(* whenever a try_add step returns false, the member vector and the state  *)
(* of every oracle after the step equal their values before it.            *)
(***************************************************************************)
C1_RejectedTryAddRestoresState ==
  [][(last'.op = "try_add" /\ last'.res = "false")
       => (member' = member /\ orc' = orc)]_vars

\* a try_add was rejected by an oracle after oracle 0 had accepted the element
C1_Witness ==
  /\ last.op = "try_add"
  /\ last.res = "false"
  /\ OracleTryAdd(orc[0], last.e).res = "true"

(***************************************************************************)
(* C2.  Between aggregator calls member[e] holds exactly when every oracle *)
(* has e in its selected subset (for a partition oracle, exactly when its  *)
(* edge flag is set), so the number of member bits is the size of the      *)
(* oracles' common selection.                                              *)
(***************************************************************************)
CommonSelection == {e \in Elements : \A j \in DOMAIN orc : e \in orc[j].sel}

C2_MemberIsCommonSelection ==
  /\ \A e \in Elements : member[e] <=> (\A j \in DOMAIN orc : e \in orc[j].sel)
  /\ \A e \in Elements : \A j \in DOMAIN orc :
       orc[j].kind = "partition" => (orc[j].eused[e] <=> e \in orc[j].sel)
  /\ Cardinality(Selected) = Cardinality(CommonSelection)

\* an element was removed while another one stays selected
C2_Witness ==
  /\ last.op = "remove"
  /\ last.res = "true"
  /\ Selected # {}

(***************************************************************************)
(* C3.  After every completed aggregator operation each oracle's selected  *)
(* subset is independent in its matroid and the oracle's vectors describe  *)
(* that subset: no vertex of a coordinate is used by two selected          *)
(* elements; in the Hamiltonian problem every vertex has at most one       *)
(* selected outgoing and one selected incoming edge and the selected edges *)
(* contain no directed cycle.                                              *)
(***************************************************************************)
OracleIndependent(o) ==
  IF o.kind \in {"partition", "degree"}
    THEN /\ OnePerVertex(o.sel, o.key)
         /\ \A v \in Vertices :
              o.vused[v] <=> (\E e \in o.sel : Coord(e, o.key) = v)
    ELSE /\ ~HasCycle(o.sel)
         /\ \A e \in o.sel : o.next[Coord(e, 0)] = Coord(e, 1)
         /\ \A v \in Vertices :
              o.next[v] # -1 <=> (\E e \in o.sel : Coord(e, 0) = v)

C3_SelectionsIndependent ==
  /\ \A j \in DOMAIN orc : OracleIndependent(orc[j])
  /\ Feasible(Selected)

\* a Hamiltonian edge that would close a cycle of two selected edges was
\* rejected by the acyclicity oracle alone
C3_Witness ==
  /\ inst.kind = "hamiltonian"
  /\ Cardinality(Selected) = 2
  /\ last.op = "try_add"
  /\ last.res = "false"
  /\ OracleTryAdd(orc[0], last.e).res = "true"
  /\ OracleTryAdd(orc[1], last.e).res = "true"

(***************************************************************************)
(* Emitted records.                                                        *)
(***************************************************************************)
Distinct(sq) == \A j \in DOMAIN sq : \A l \in DOMAIN sq : j # l => sq[j] # sq[l]

LastOf(sq) == sq[Len(sq)]

RunReturned == pc \in {"validate", "done"}

RecordFeasible(r) ==
  /\ \A j \in DOMAIN r.solution : r.solution[j] \in Elements
  /\ Distinct(r.solution)
  /\ Feasible(Image(r.solution))
  /\ HasValidator => Validate(r.solution) = "ok"

(***************************************************************************)
(* C4.  Every selection emitted by baseline, Kuhn or local search, the     *)
(* record emitted on a deadline in the middle of an exchange attempt       *)
(* included, consists of distinct in-range element indices that are        *)
(* independent in every matroid of the instance, and the instance's        *)
(* validator accepts it.                                                   *)
(***************************************************************************)
C4_EmittedSelectionsFeasible ==
  \A j \in DOMAIN AllRecords : RecordFeasible(AllRecords[j])

\* a bipartite run in which the deadline fired in a nested frame of an
\* exchange attempt and the deadline record carries a non-empty selection
C4_Witness ==
  /\ pc = "done"
  /\ IsBipartite
  /\ Len(kuhn.solution) = 2
  /\ fired = "nested"
  /\ LastOf(emitted).deadline
  /\ LastOf(solutions).solution # << >>

(***************************************************************************)
(* C5.  With a deadline that never fires local search ends without an      *)
(* error, at the first depth whose full pass finds no exchange while the   *)
(* depth equals the solution size, and its last record has ratio 1.0, for  *)
(* every arity k.                                                          *)
(***************************************************************************)
C5_EndsAtSolutionSizeWithRatioOne ==
  (pc \in {"validate", "done", "failed"} /\ ~timeLimitExceeded) =>
    /\ pc # "failed"
    /\ solutions # << >>
    /\ LastOf(solutions).ratio = One
    /\ LastOf(emitted).s = LastOf(emitted).solutionSize
    /\ \A j \in 1 .. Len(emitted) - 1 : emitted[j].s # emitted[j].solutionSize

(***************************************************************************)
(* C6.  A record emitted because the depth reached the solution size (no   *)
(* deadline) carries a selection of maximum cardinality among the subsets  *)
(* of the ground set independent in all k matroids.                        *)
(***************************************************************************)
C6_FinalSelectionIsMaximum ==
  \A j \in DOMAIN solutions :
    (~emitted[j].deadline /\ emitted[j].s = emitted[j].solutionSize) =>
      /\ solutions[j].ratio = One
      /\ Len(solutions[j].solution) = MaxFeasibleSize

\* the run ended at t = |S*| with a selection larger than the greedy one
C6_Witness ==
  /\ pc = "done"
  /\ ~timeLimitExceeded
  /\ LastOf(emitted).s = LastOf(emitted).solutionSize
  /\ Len(LastOf(solutions).solution) > Len(baseline.solution)

(***************************************************************************)
(* C7.  On a bipartite instance Kuhn emits, with ratio 1.0, edge indices   *)
(* that form a matching whose size is the maximum matching size.           *)
(***************************************************************************)
C7_KuhnIsMaximumMatching ==
  kuhn # NoRecord =>
    /\ kuhn.ratio = One
    /\ \A j \in DOMAIN kuhn.solution : kuhn.solution[j] \in Elements
    /\ Distinct(kuhn.solution)
    /\ Feasible(Image(kuhn.solution))
    /\ Len(kuhn.solution) = MaxFeasibleSize

\* Kuhn's matching is larger than the greedy one: an augmenting path was used
C7_Witness ==
  /\ kuhn # NoRecord
  /\ Len(kuhn.solution) > Len(baseline.solution)

(***************************************************************************)
(* C8.  In the records of one local-search run the selection sizes never   *)
(* decrease in emission order, the deadline record included.               *)
(***************************************************************************)
C8_SizesNonDecreasing ==
  \A j \in DOMAIN solutions : \A l \in DOMAIN solutions :
    j < l => Len(solutions[j].solution) <= Len(solutions[l].solution)

\* a run whose sizes grew and that ended with a deadline record emitted
\* after the deadline fired in a nested frame
C8_Witness ==
  /\ RunReturned
  /\ Len(solutions) >= 3
  /\ Len(solutions[1].solution) < Len(LastOf(solutions).solution)
  /\ LastOf(emitted).deadline
  /\ fired = "nested"

(***************************************************************************)
(* C9.  Whenever the deadline elapsed during a run, wherever it was        *)
(* noticed, the run has emitted as its last record the deadline record     *)
(* {ratio(t-1, k), current selection} (ratio 0 when t = 0); so a run       *)
(* returns at least one record.                                            *)
(***************************************************************************)
DeadlineRecord ==
  ApproximationSolution(
    IF s = 0 THEN Zero ELSE computeApproximationRatio(s - 1, K).ratio,
    convertMaskToSolution(solutionMask))

C9_DeadlineEmitsFinalRecord ==
  (RunReturned /\ timeLimitExceeded) =>
    /\ solutions # << >>
    /\ LastOf(emitted).deadline
    /\ LastOf(solutions) = DeadlineRecord

(***************************************************************************)
(* C10.  When an exchange attempt in which the deadline fired returns      *)
(* false, the aggregator (member vector and oracles), solution_mask and    *)
(* just_removed are what they were when the attempt started.               *)
(***************************************************************************)
AttemptReturnedFalse ==
  pc = "ls_call" /\ cur.kind = "ret" /\ stack = << >> /\ ~cur.val

C10_DeadlineAttemptRestoresState ==
  (AttemptReturnedFalse /\ timeLimitExceeded) => Snapshot = attempt

\* the deadline fired in a nested frame, with a speculative change pending,
\* of an attempt started on a non-empty solution
C10_Witness ==
  /\ AttemptReturnedFalse
  /\ timeLimitExceeded
  /\ fired = "nested"
  /\ Selected # {}

(***************************************************************************)
(* C11.  The final selection of a local-search run that returned without   *)
(* a deadline is at least as large as the selection baseline emitted on    *)
(* the same instance.                                                      *)
(***************************************************************************)
C11_LocalSearchAtLeastBaseline ==
  (RunReturned /\ ~timeLimitExceeded) =>
    /\ solutions # << >>
    /\ Len(LastOf(solutions).solution) >= Len(baseline.solution)

\* a Hamiltonian run that completed with more edges than the greedy sweep
C11_Witness ==
  /\ pc = "done"
  /\ ~timeLimitExceeded
  /\ inst.kind = "hamiltonian"
  /\ Len(baseline.solution) >= 1
  /\ Len(LastOf(solutions).solution) > Len(baseline.solution)

(***************************************************************************)
(* C12.  The record baseline emits on a reset aggregator has ratio 1/k     *)
(* and a selection S with k * |S| >= |OPT|, OPT a maximum-cardinality set  *)
(* independent in all k matroids of the instance.                          *)
(***************************************************************************)
C12_BaselineWithinFactorK ==
  baseline # NoRecord =>
    /\ baseline.ratio = Rational(1, K)
    /\ K * Len(baseline.solution) >= MaxFeasibleSize

\* a bipartite instance on which the bound is tight: the greedy sweep
\* selects one edge and a matching of two edges exists
C12_Witness ==
  /\ baseline # NoRecord
  /\ K = 2
  /\ Len(baseline.solution) = 1
  /\ MaxFeasibleSize = 2

(***************************************************************************)
(* C13.  On a bipartite instance every plateau record local search emits   *)
(* at depth t has ratio (t+1)/(t+2) and a selection S with                 *)
(* (t+2) * |S| >= (t+1) * |OPT|, OPT a maximum matching; the record        *)
(* emitted on a deadline at depth t >= 1 has ratio t/(t+1) and satisfies   *)
(* the bound of depth t-1.                                                 *)
(***************************************************************************)
\* the selection of record r is within the ratio p/q the record carries
WithinRatio(r) ==
  r.ratio.q * Len(r.solution) >= r.ratio.p * MaxFeasibleSize

C13_BipartiteRatioBound ==
  IsBipartite =>
    \A j \in DOMAIN solutions :
      /\ (~emitted[j].deadline /\ emitted[j].s # emitted[j].solutionSize) =>
           /\ solutions[j].ratio = Rational(emitted[j].s + 1, emitted[j].s + 2)
           /\ WithinRatio(solutions[j])
      /\ (emitted[j].deadline /\ emitted[j].s >= 1) =>
           /\ solutions[j].ratio = Rational(emitted[j].s, emitted[j].s + 1)
           /\ WithinRatio(solutions[j])

\* the deadline fired at depth 1 on a selection of one edge while a matching
\* of two edges exists: the bound of depth 0 is tight
C13_Witness ==
  /\ IsBipartite
  /\ RunReturned
  /\ Len(solutions) = 2
  /\ LastOf(emitted).deadline
  /\ LastOf(emitted).s = 1
  /\ Len(LastOf(solutions).solution) = 1
  /\ MaxFeasibleSize = 2

(***************************************************************************)
(* C14.  Whenever try_add(e) of a non-member e returns true, remove(e)     *)
(* applied to the state it leaves returns normally and yields the member   *)
(* vector and the oracle states that held before the try_add.              *)
(***************************************************************************)
C14_TryAddThenRemoveRestores ==
  [][(last'.op = "try_add" /\ last'.res = "true" /\ ~member[last'.e])
       => removeElement(Agg(member', orc'), last'.e)
            = [res |-> "true", agg |-> Agg(member, orc)]]_vars

\* try_add accepted a second edge of a Hamiltonian instance, extending the
\* path of the first, and remove of that edge is accepted
C14_Witness ==
  /\ inst.kind = "hamiltonian"
  /\ last.op = "try_add"
  /\ last.res = "true"
  /\ Cardinality(Selected) = 2
  /\ removeElement(Agg(member, orc), last.e).res = "true"

(***************************************************************************)
(* C15.  From every reachable aggregator state reset() returns without an  *)
(* error and leaves member all false and every oracle in its empty-set     *)
(* state (no vertex used, no edge used, next[v] = -1 for all v); a second  *)
(* reset() changes nothing.                                                *)
(***************************************************************************)
EmptyAggregator == Agg([e \in Elements |-> FALSE], BuildOracles)

C15_ResetEmptiesAndIsIdempotent ==
  /\ reset(Agg(member, orc)) = [res |-> "true", agg |-> EmptyAggregator]
  /\ reset(EmptyAggregator) = [res |-> "true", agg |-> EmptyAggregator]
  /\ last.op = "reset" => (last.res = "true" /\ Agg(member, orc) = EmptyAggregator)

\* a Hamiltonian state with a path of two selected edges, which reset
\* removes one after the other
C15_Witness ==
  /\ inst.kind = "hamiltonian"
  /\ Cardinality(Selected) = 2
  /\ reset(Agg(member, orc)).agg.member = [e \in Elements |-> FALSE]

EmptyOptimal == ApproximationSolution(One, << >>)

C17_EmptyInstanceRatioOne ==
  N = 0 =>
    /\ baseline # NoRecord => baseline = EmptyOptimal
    /\ kuhn # NoRecord => kuhn = EmptyOptimal
    /\ (RunReturned /\ ~timeLimitExceeded) => solutions = <<EmptyOptimal>>

(***************************************************************************)
(* C18.  try_add(e) of an element that is already selected (member[e]      *)
(* true) raises an error, in matching and in Hamiltonian problems alike:   *)
(* it never returns true or false.                                         *)
(***************************************************************************)
C18_DoubleAddRaises ==
  [][(last'.op = "try_add" /\ member[last'.e]) => last'.res = "throw"]_vars

(***************************************************************************)
(* C19.  remove(e) of a non-member raises an error and leaves the member   *)
(* vector and every oracle's state unchanged; remove(e) of a member        *)
(* returns normally, takes e out of every oracle's selected subset,        *)
(* leaving the other elements, and clears member[e] alone.                 *)
(***************************************************************************)
C19_RemoveChecksMembership ==
  [][last'.op = "remove" =>
       IF ~member[last'.e]
         THEN last'.res = "throw" /\ member' = member /\ orc' = orc
         ELSE /\ last'.res = "true"
              /\ member' = [member EXCEPT ![last'.e] = FALSE]
              /\ \A j \in DOMAIN orc :
                   orc'[j].sel = orc[j].sel \ {last'.e}]_vars

\* remove of a non-member was refused in a Hamiltonian state where another
\* selected edge uses the tail vertex of the refused one
C19_Witness ==
  /\ inst.kind = "hamiltonian"
  /\ last.op = "remove"
  /\ last.res = "throw"
  /\ \E f \in Selected : Coord(f, 0) = Coord(last.e, 0)

(***************************************************************************)
(* C20.  Every record emitted by baseline, Kuhn or local search carries a  *)
(* ratio r with 0 < r <= 1.                                                *)
(***************************************************************************)
\* 0 < r <= 1.  For s >= 1 the closed form 2 / (3 + 2 * s^(-0.3562)) has
\* 0 < s^(-0.3562) <= 1, hence a value in [2/5, 2/3).
InUnitInterval(r) ==
  IF r.form = "p/q" THEN 0 < r.p /\ r.p <= r.q ELSE r.p >= 1

C20_RatioInUnitInterval ==
  \A j \in DOMAIN AllRecords : InUnitInterval(AllRecords[j].ratio)

(***************************************************************************)
(* C20, amended.  Every record of baseline and Kuhn, and every record of   *)
(* local search other than a deadline record at depth 0, carries a ratio   *)
(* r with 0 < r <= 1; the deadline record at depth 0 carries ratio 0.      *)
(***************************************************************************)
C20_RatioInUnitIntervalOrZeroAtDepthZero ==
  /\ baseline # NoRecord => InUnitInterval(baseline.ratio)
  /\ kuhn # NoRecord => InUnitInterval(kuhn.ratio)
  /\ \A j \in DOMAIN solutions :
       IF emitted[j].deadline /\ emitted[j].s = 0
         THEN solutions[j].ratio = Zero
         ELSE InUnitInterval(solutions[j].ratio)

\* the deadline fired at depth 0 after an element had been added: the run
\* returned a non-empty selection with ratio 0
C20_Witness ==
  /\ RunReturned
  /\ solutions # << >>
  /\ LastOf(emitted).deadline
  /\ LastOf(emitted).s = 0
  /\ LastOf(solutions).solution # << >>
  /\ LastOf(solutions).ratio = Zero

(***************************************************************************)
(* C21.  For every record emitted by baseline, Kuhn or local search, the   *)
(* set of elements of the selection is {e : member[e]} of the aggregator   *)
(* at the moment of emission.                                              *)
(***************************************************************************)
MembersAt(j) == {e \in Elements : emitted[j].member[e]}

C21_SelectionIsMemberSet ==
  /\ (pc = "reset" /\ baseline # NoRecord) => Image(baseline.solution) = Selected
  /\ pc = "reset_ls" => Image(kuhn.solution) = Selected
  /\ \A j \in DOMAIN solutions : Image(solutions[j].solution) = MembersAt(j)

(***************************************************************************)
(* C21, amended.  For every record emitted by baseline or local search     *)
(* the set of elements of the selection is {e : member[e]} at the moment   *)
(* of emission.  Kuhn does not use the aggregator: when it emits, member   *)
(* is all false, as the preceding reset left it.                           *)
(***************************************************************************)
C21_SelectionIsMemberSetExceptKuhn ==
  /\ (pc = "reset" /\ baseline # NoRecord) => Image(baseline.solution) = Selected
  /\ pc = "reset_ls" => Selected = {}
  /\ \A j \in DOMAIN solutions : Image(solutions[j].solution) = MembersAt(j)

\* Kuhn has just emitted a matching of two edges, after a baseline that
\* selected something
C21_Witness ==
  /\ pc = "reset_ls"
  /\ Len(kuhn.solution) = 2
  /\ baseline.solution # << >>

(***************************************************************************)
(* C22.  For every record emitted by baseline, Kuhn or local search, the   *)
(* selection list is in strictly ascending order of element index.         *)
(***************************************************************************)
StrictlyAscending(sq) == \A j \in 1 .. Len(sq) - 1 : sq[j] < sq[j + 1]

C22_SelectionsAscending ==
  \A j \in DOMAIN AllRecords : StrictlyAscending(AllRecords[j].solution)

(***************************************************************************)
(* C23.  For arity k outside {2, 3}, whenever the ratio of a plateau at    *)
(* depth t with |S*| # t is requested, t = 0 included, the result is an    *)
(* Unsupported error and no ratio is produced: local search emits no       *)
(* plateau record whose depth differs from its solution size.              *)
(***************************************************************************)
C23_UnsupportedArityProducesNoRatio ==
  K \notin {2, 3} =>
    \A j \in DOMAIN solutions :
      ~emitted[j].deadline => emitted[j].solutionSize = emitted[j].s

(***************************************************************************)
(* Scenario S4: main.cpp on the Hamiltonian instance with 3 vertices and   *)
(* the edges [(0,1), (1,2), (2,0), (0,2)] (elements 0..3).  A Hamiltonian  *)
(* instance is not bipartite, so main never runs Kuhn on it.               *)
(***************************************************************************)
ScenarioS4Edges == <<<<0, 1>>, <<1, 2>>, <<2, 0>>, <<0, 2>>>>

ScenarioS4Instances ==
  {[kind |-> "hamiltonian", k |-> 3, n |-> 3, edges |-> ScenarioS4Edges,
    timeLimit |-> tl] : tl \in TimeLimits}

InitS4 == InitOver(ScenarioS4Instances, "baseline")

\* main.cpp without its bipartite branch
NextNotBipartite ==
  \/ MainBaseline
  \/ MainReset
  \/ LsInit
  \/ Tick
  \/ LsStep
  \/ LsPass
  \/ LsAttempt
  \/ removeAndAddElements
  \/ addElements
  \/ LsReturn
  \/ LsAttemptEnd
  \/ LsAfterFor
  \/ LsEmit
  \/ MainValidate

SpecS4 == InitS4 /\ [][NextNotBipartite]_vars

(***************************************************************************)
(* C24.  Scenario S4: the maximum common independent set has size 2, and   *)
(* local search whose deadline does not fire terminates with a last        *)
(* record of ratio 1.0 and a selection of size 2.                          *)
(***************************************************************************)
C24_ScenarioS4 ==
  /\ MaxFeasibleSize = 2
  /\ (RunReturned /\ ~timeLimitExceeded) =>
       /\ solutions # << >>
       /\ LastOf(solutions).ratio = One
       /\ Len(LastOf(solutions).solution) = 2
  /\ (~timeLimitExceeded /\ inst.timeLimit > 0) => pc # "failed"

\* the run on S4 returned without the deadline, after three plateau records
C24_Witness ==
  /\ pc = "done"
  /\ ~timeLimitExceeded
  /\ Len(solutions) = 3
  /\ LastOf(solutions).ratio = One

(***************************************************************************)
(* C25.  Whenever local search emits a plateau record at depth t without   *)
(* the deadline, its selection S* is t-locally optimal: for no i in 0..t   *)
(* are there R within S* of size i and A disjoint from S* of size i + 1    *)
(* such that (S* \ R) \cup A is independent in all k matroids.             *)
(***************************************************************************)
HasExchange(S, m) ==
  \E R \in SUBSET S : \E A \in SUBSET (Elements \ S) :
    /\ Cardinality(R) = m
    /\ Cardinality(A) = m + 1
    /\ Feasible((S \ R) \cup A)

LocallyOptimal(S, t) == \A m \in 0 .. t : ~HasExchange(S, m)

C25_PlateauIsLocallyOptimal ==
  \A j \in DOMAIN solutions :
    ~emitted[j].deadline =>
      /\ Image(solutions[j].solution) = MembersAt(j)
      /\ LocallyOptimal(MembersAt(j), emitted[j].s)

\* a plateau record at depth 1 whose selection came out of a (1,2)-exchange
\* applied to the selection of the depth-0 plateau
C25_Witness ==
  /\ Len(solutions) >= 2
  /\ ~emitted[2].deadline
  /\ emitted[2].s = 1
  /\ Cardinality(MembersAt(2)) = 2
  /\ Cardinality(MembersAt(1)) = 1
  /\ MembersAt(1) \cap MembersAt(2) = {}

(***************************************************************************)
(* C26.  Every exchange attempt (i, i + 1) that returns true removed       *)
(* exactly i elements that were in the solution and added exactly i + 1    *)
(* that were not, the removed and the added sets being disjoint; the       *)
(* solution grew by exactly one element and solutionSize is the number of  *)
(* true bits of solution_mask.                                             *)
(***************************************************************************)
MaskSet(mask) == {e \in Elements : mask[e]}

\* the attempt removeAndAddElements(0, i, i + 1) of this pass returned true
AttemptReturnedTrue == pc = "ls_afterFor" /\ success

C26_ExchangeRemovesIAddsIPlusOne ==
  AttemptReturnedTrue =>
    LET old == MaskSet(attempt.solutionMask)
        new == MaskSet(solutionMask)
        R == MaskSet(justRemoved)
        A == new \ old
    IN  /\ R \subseteq old
        /\ Cardinality(R) = i
        /\ Cardinality(A) = i + 1
        /\ R \cap new = {}
        /\ new = (old \ R) \cup A
        /\ Cardinality(new) = Cardinality(old) + 1
        /\ solutionSize = Cardinality(new)
        /\ Selected = new

\* a (1,2)-exchange has just returned true
C26_Witness ==
  /\ AttemptReturnedTrue
  /\ i = 1
  /\ Cardinality(MaskSet(justRemoved)) = 1
  /\ Cardinality(MaskSet(solutionMask)) = 2

(***************************************************************************)
(* main.cpp on a bipartite instance with 3 vertices a side and 6 edges on  *)
(* which the depth-0 plateau {0, 1} admits two (1,2)-exchanges, one for    *)
(* each element it could remove; and main.cpp on all the instances above.  *)
(***************************************************************************)
TwoRemovalsEdges ==
  <<<<0, 0>>, <<1, 1>>, <<0, 2>>, <<2, 0>>, <<1, 2>>, <<2, 1>>>>

TwoRemovalsInstances ==
  {[kind |-> "matching", k |-> 2, n |-> 3, edges |-> TwoRemovalsEdges,
    timeLimit |-> tl] : tl \in TimeLimits}

InitWide ==
  InitOver(Instances \cup ScenarioS4Instances \cup TwoRemovalsInstances,
           "baseline")

SpecWide == InitWide /\ [][Next]_vars

(***************************************************************************)
(* C27.  Local search is first-improvement in ascending order: within a    *)
(* pass at depth t the exchange applied is for the smallest i in 0..t      *)
(* that admits one, and it is the first pair (R, A) of the ascending-index *)
(* enumeration (all R in lexicographic order, and for each R all A in      *)
(* lexicographic order); after an applied exchange the next attempt starts *)
(* again from i = 0 at the same depth t.                                   *)
(***************************************************************************)
MinOf(S) == CHOOSE x \in S : \A y \in S : x <= y

\* X comes before Y in the ascending-index enumeration of subsets of one size
Precedes(X, Y) == X # Y /\ MinOf((X \ Y) \cup (Y \ X)) \in X

IsExchange(S, m, R, A) ==
  /\ R \subseteq S
  /\ A \subseteq Elements \ S
  /\ Cardinality(R) = m
  /\ Cardinality(A) = m + 1
  /\ Feasible((S \ R) \cup A)

FirstImprovement ==
  AttemptReturnedTrue =>
    LET old == MaskSet(attempt.solutionMask)
        R == MaskSet(justRemoved)
        A == MaskSet(solutionMask) \ old
    IN  /\ i \in 0 .. s
        /\ \A m \in 0 .. i - 1 : ~HasExchange(old, m)
        /\ IsExchange(old, i, R, A)
        /\ \A R2 \in SUBSET old : \A A2 \in SUBSET (Elements \ old) :
             IsExchange(old, i, R2, A2) =>
               ~(Precedes(R2, R) \/ (R2 = R /\ Precedes(A2, A)))

RestartsFromZero ==
  /\ (AttemptReturnedTrue /\ pc' # pc /\ ~timeLimitExceeded) =>
       (pc' = "ls_pass" /\ s' = s)
  /\ (pc = "ls_pass" /\ pc' = "ls_attempt") => (i' = 0 /\ s' = s)

C27_FirstImprovementAscending ==
  []FirstImprovement /\ [][RestartsFromZero]_vars

\* a (1,2)-exchange returned true where another (1,2)-exchange, removing a
\* different element, existed as well
C27_Witness ==
  /\ AttemptReturnedTrue
  /\ i = 1
  /\ LET old == MaskSet(attempt.solutionMask) IN
       \E R2 \in SUBSET old : \E A2 \in SUBSET (Elements \ old) :
         /\ IsExchange(old, 1, R2, A2)
         /\ R2 # MaskSet(justRemoved)

(***************************************************************************)
(* C28.  The undo of a removal never fails: whenever removeAndAddElements  *)
(* puts a removed element back after its recursive call returned false,    *)
(* with or without the deadline, try_add returns true, and the error       *)
(* "Failed to add element" is never raised, on matching and on Hamiltonian *)
(* instances.                                                              *)
(***************************************************************************)
\* the recursive call of a frame that removed an element has returned false
UndoOfRemovalPending ==
  /\ pc = "ls_call"
  /\ cur.kind = "ret"
  /\ ~cur.val
  /\ stack # << >>
  /\ LastOf(stack).kind = "R"

C28_UndoOfRemovalNeverFails ==
  /\ error # "Failed to add element"
  /\ UndoOfRemovalPending =>
       /\ ~member[LastOf(stack).idx]
       /\ tryAddElement(Agg(member, orc), LastOf(stack).idx).res = "true"

\* on a Hamiltonian instance the deadline fired below a frame that removed
\* an element, and the frame is about to put it back
C28_Witness ==
  /\ UndoOfRemovalPending
  /\ timeLimitExceeded
  /\ inst.kind = "hamiltonian"
  /\ Cardinality(Selected) >= 1

(***************************************************************************)
(* C29.  solution_mask[e] = member[e] for every element e at the entry of  *)
(* every recursion frame, at every frame return and at every emission, and *)
(* just_removed[e] implies that solution_mask[e] is false.                 *)
(***************************************************************************)
MaskIsMember == \A e \in Elements : solutionMask[e] = member[e]

C29_MaskMirrorsMember ==
  /\ pc \in {"ls_call", "ls_emit"} => MaskIsMember
  /\ \A j \in DOMAIN solutions :
       Image(solutions[j].solution) = MembersAt(j)
  /\ pc \in LsPcs => \A e \in Elements : justRemoved[e] => ~solutionMask[e]

\* a frame returns while an element is flagged as just removed and two
\* others are selected
C29_Witness ==
  /\ pc = "ls_call"
  /\ cur.kind = "ret"
  /\ stack # << >>
  /\ \E e \in Elements : justRemoved[e]
  /\ Cardinality(MaskSet(solutionMask)) >= 2

(***************************************************************************)
(* C30.  If the deadline does not fire and the depth-0 plateau is not      *)
(* already final, the first record of local search (the plateau at t = 0)  *)
(* has exactly the same selection as the record baseline emitted on the    *)
(* same instance.                                                          *)
(***************************************************************************)
\* local search has emitted its depth-0 plateau, not final, without deadline
FirstPlateauNotFinal ==
  /\ solutions # << >>
  /\ ~emitted[1].deadline
  /\ emitted[1].s = 0
  /\ emitted[1].solutionSize # 0

C30_FirstPlateauIsBaseline ==
  (FirstPlateauNotFinal /\ baseline # NoRecord) =>
    solutions[1].solution = baseline.solution

\* baseline took elements 0 and 2 and rejected element 1, and local search
\* has emitted its depth-0 plateau
C30_Witness ==
  /\ FirstPlateauNotFinal
  /\ baseline.solution = <<0, 2>>
  /\ solutions[1].ratio # One

(***************************************************************************)
(* C31.  In the Hamiltonian aggregator (oracles in the order out-degree,   *)
(* in-degree, acyclicity), in every reachable state: try_add(a->b) of the  *)
(* acyclicity oracle is only reached with next[a] = -1, next contains no   *)
(* cycle, the walk from b stops within vertex-count steps, so that the     *)
(* step counter never runs out, and every remove(a->b) that reaches the    *)
(* acyclicity oracle finds next[a] = b.                                    *)
(***************************************************************************)
IsHamiltonian == inst.kind = "hamiltonian"

\* tryAddElement(e) calls the acyclicity oracle: both degree oracles accepted
AcyclicTryAddReached(e) ==
  /\ IsHamiltonian
  /\ OracleTryAdd(orc[0], e).res = "true"
  /\ OracleTryAdd(orc[1], e).res = "true"

\* removeElement(e) calls the acyclicity oracle: e is a member and both
\* degree oracles removed it
AcyclicRemoveReached(e) ==
  /\ IsHamiltonian
  /\ member[e]
  /\ OracleRemove(orc[0], e).res = "true"
  /\ OracleRemove(orc[1], e).res = "true"

\* following nxt from v ends at -1 after at most m hops
RECURSIVE EndsWithin(_, _, _)
EndsWithin(nxt, v, m) ==
  IF v = -1 THEN TRUE
  ELSE IF m = 0 THEN FALSE
  ELSE EndsWithin(nxt, nxt[v], m - 1)

NextHasNoCycle ==
  \A v \in Vertices : EndsWithin(orc[2].next, v, inst.n)

C31_AcyclicOracleInvariants ==
  IsHamiltonian =>
    /\ NextHasNoCycle
    /\ \A e \in Elements :
         AcyclicTryAddReached(e) =>
           /\ orc[2].next[Coord(e, 0)] = -1
           /\ Walk(orc[2].next, Coord(e, 1), 0) # -2
           /\ OracleTryAdd(orc[2], e).res # "throw"
    /\ \A e \in Elements :
         AcyclicRemoveReached(e) =>
           /\ orc[2].next[Coord(e, 0)] = Coord(e, 1)
           /\ OracleRemove(orc[2], e).res = "true"
    /\ last.res # "throw" \/ last.op = "remove"

\* the path 0 -> 1 -> 2 is selected and try_add of the edge that would close
\* it into a cycle reaches the acyclicity oracle, whose walk ends at a
C31_Witness ==
  /\ IsHamiltonian
  /\ Cardinality(Selected) = 2
  /\ \E e \in Elements :
       /\ AcyclicTryAddReached(e)
       /\ Coord(e, 0) # Coord(e, 1)
       /\ Walk(orc[2].next, Coord(e, 1), 0) = Coord(e, 0)
       /\ OracleTryAdd(orc[2], e).res = "false"

====
